---- MODULE Spec2Model ----
(***************************************************************************)
(* Verification model of the color-quantizer repository: the level table   *)
(* and threshold matrix (color_quantizers.rs), the error-diffusion raster  *)
(* scan, the popularity palette, the LRU result cache                       *)
(* (processed_images_cache.rs) and the frame loop of the application        *)
(* (app.rs).                                                                *)
(***************************************************************************)
EXTENDS Integers, Sequences, FiniteSets, TLC

VARIABLES
    k,          \* DitheringCommon: the k a level table was last built for (0: none)
    levels,     \* DitheringCommon: the level table, a Vec<u8> as a sequence
    value,      \* find_closest_level: the value last looked up (-1: none)
    level,      \* find_closest_level: the level returned (-1: none)
    n,          \* OrderedDitheringCommon: the matrix size last generated (0: none)
    matrix,     \* OrderedDitheringCommon: the threshold matrix, Vec<Vec<u32>>
    cache,      \* ProcessedImagesCache.cache: the entries, most recently used first
    cap,        \* the capacity the LruCache was constructed with
    ret,        \* the image the last get returned (NoImage: none)
    panicked,   \* a panic!/unwrap has aborted the program
    invoked,    \* how many times a ColorQuantizer has been invoked
    op,         \* the last cache call: its name, its key, whether it hit and
                \* whether the key had been got before since the last clear
    useOrder,   \* history: the keys got since the last clear, last got first
    clearedKeys, \* history: the keys the last clear discarded
    app,        \* struct App (app.rs:17-28), with what a panic and the loader leave
    image,      \* the initial_image a quantizer is called on: size and pixels
    params,     \* the parameters a quantizer is called with
    output_pixels, \* ErrorDiffusion: the working copy of the pixels
    loop_i,     \* ErrorDiffusion: the index i the raster loop is at
    writes,     \* ErrorDiffusion: the add_error writes of the last iteration
    colors,     \* Popularity: the palette find_most_popular_k_colors returned
    output,     \* the ColorImage the quantizer returned (done: it has returned)
    algorithm,  \* the dithering quantizer a call runs ("none": no call)
    call,       \* OrderedDitheringCommon::get_color: the last call and its result
    tables,     \* the locals r_levels, g_levels, b_levels, n_*, m_* of a call
    rng,        \* rand::thread_rng(): which stream of draws a call gets
    chunk_results, \* par_chunks: the Vec each processed chunk's closure returned
    finished    \* history: the chunk ids in the order their closures returned

tableVars == <<k, levels, value, level, n, matrix>>

cacheVars == <<cache, cap, ret, panicked, invoked, op, useOrder, clearedKeys>>

quantVars == <<image, params, output_pixels, loop_i, writes, colors, output>>

parVars == <<algorithm, call, tables, rng, chunk_results, finished>>

vars == <<tableVars, cacheVars, app, quantVars, parVars>>

(***************************************************************************)
(* Program constants.                                                      *)
(***************************************************************************)
\* app.rs:58 Slider::new(&mut ...k_r, 2..=255)
MIN_K == 2
MAX_K == 255
\* u8
U8_MAX == 255
\* color_quantizers.rs:260
POSSIBLE_N == <<2, 3, 4, 6, 8, 12, 16>>

Pow2(e) == 2 ^ e

Min(a, b) == IF a <= b THEN a ELSE b

SeqToSet(s) == {s[x] : x \in DOMAIN s}

(***************************************************************************)
(* f32 arithmetic of generate_color_levels.  A positive f32 is a pair      *)
(* <<m, f>> standing for m / 2^f with a 24-bit significand m.              *)
(***************************************************************************)
RECURSIVE BitLen(_)
BitLen(x) == IF x = 0 THEN 0 ELSE 1 + BitLen(x \div 2)

\* (a as f32) / (b as f32) for integers 0 < b <= a < 2^24: the quotient rounded
\* to nearest, ties to even, at 24 significant bits (IEEE 754 binary32).
F32Div(a, b) ==
    LET ip == a \div b
        f  == 24 - BitLen(ip)
        nu == (a % b) * Pow2(f)
        fq == nu \div b
        rr == nu % b
        m0 == ip * Pow2(f) + fq
    IN  IF 2 * rr > b \/ (2 * rr = b /\ m0 % 2 = 1)
        THEN <<m0 + 1, f>>
        ELSE <<m0, f>>

\* f32::round: to the nearest integer, halves away from zero (x >= 0 here).
F32Round(x) == (2 * x[1] + Pow2(x[2])) \div Pow2(x[2] + 1)

\* `as u8` on a non-negative integer-valued float: saturating.
AsU8(x) == IF x < 0 THEN 0 ELSE Min(x, U8_MAX)

\* A mutant of the level computation: the cast without the .round() call.
generate_color_level_Truncating(i, kk) ==
    IF i = 0 THEN 0
    ELSE AsU8(F32Div(i * 255, kk - 1)[1] \div Pow2(F32Div(i * 255, kk - 1)[2]))

\* color_quantizers.rs:20  ((i as f32) * 255.0 / (k - 1) as f32).round() as u8
\* i * 255 <= 64770 is exact in f32.
generate_color_level(i, kk) ==
    IF i = 0 THEN 0
    ELSE AsU8(F32Round(F32Div(i * 255, kk - 1)))

\* color_quantizers.rs:18-22  (0..k).map(...).collect(); Vec index i is i + 1 here.
generate_color_levels(kk) == [x \in 1..kk |-> generate_color_level(x - 1, kk)]

\* slice::binary_search on a strictly increasing slice: Ok(idx) of the element,
\* else Err(idx) of the insertion point (0-based).
binary_search(lv, v) ==
    IF \E x \in DOMAIN lv : lv[x] = v
    THEN [ok |-> TRUE,  idx |-> (CHOOSE x \in DOMAIN lv : lv[x] = v) - 1]
    ELSE [ok |-> FALSE, idx |-> Cardinality({x \in DOMAIN lv : lv[x] < v})]

\* A mutant of the tie rule: strict < sends a tie to the upper level.
PickNeighbour_StrictLess(v, prev, next) ==
    IF (v - prev) < (next - v) THEN prev ELSE next

\* color_quantizers.rs:39-43
PickNeighbour(v, prev, next) ==
    IF (v - prev) <= (next - v) THEN prev ELSE next

\* color_quantizers.rs:24-46
find_closest_level(v, lv) ==
    IF v <= lv[1] THEN lv[1]
    ELSE IF v >= lv[Len(lv)] THEN lv[Len(lv)]
    ELSE LET r == binary_search(lv, v)
         IN  IF r.ok THEN lv[r.idx + 1]
             ELSE PickNeighbour(v, lv[r.idx], lv[r.idx + 1])

(***************************************************************************)
(* Threshold matrix.  Vec<Vec<u32>> is a function on 0..n-1 of functions.  *)
(***************************************************************************)
\* color_quantizers.rs:272-275
MATRIX_2 == <<<<0, 2>>, <<3, 1>>>>
\* color_quantizers.rs:279-287
MATRIX_3 == <<<<6, 8, 4>>, <<1, 0, 3>>, <<5, 2, 7>>>>

\* A mutant of the quadrant offsets: the lower-left quadrant repeats + 2.
QuadrantOffset_Repeated(top, left) ==
    IF top /\ left THEN 0 ELSE IF top THEN 2 ELSE IF left THEN 2 ELSE 1

\* color_quantizers.rs:295-298
QuadrantOffset(top, left) ==
    IF top /\ left THEN 0 ELSE IF top THEN 2 ELSE IF left THEN 3 ELSE 1

\* color_quantizers.rs:269-302; cells the loops do not reach keep the 0 of
\* vec![0; n]; the u32 cells stay below 4 * 64 + 3, far from wrapping.
RECURSIVE generate_matrix(_)
generate_matrix(nn) ==
    IF nn = 2 THEN [i \in 0..1 |-> [j \in 0..1 |-> MATRIX_2[i + 1][j + 1]]]
    ELSE IF nn = 3 THEN [i \in 0..2 |-> [j \in 0..2 |-> MATRIX_3[i + 1][j + 1]]]
    ELSE LET half_n      == nn \div 2
             half_matrix == generate_matrix(half_n)
         IN  [i \in 0..(nn - 1) |-> [j \in 0..(nn - 1) |->
                IF i < 2 * half_n /\ j < 2 * half_n
                THEN 4 * half_matrix[i % half_n][j % half_n]
                     + QuadrantOffset(i < half_n, j < half_n)
                ELSE 0]]

(***************************************************************************)
(* Algorithms, parameters and cache keys (algorithms.rs).                  *)
(***************************************************************************)
\* algorithms.rs:5-12
Algorithm ==
    {"AverageDithering", "ErrorDiffusionDithering", "OrderedDitheringRandom",
     "OrderedDitheringRelative", "PopularityAlgorithm"}

\* algorithms.rs:31-41  impl From<Algorithm> for AlgorithmType
AlgorithmType(alg) ==
    IF alg = "PopularityAlgorithm" THEN "Popularity" ELSE "Dithering"

\* algorithms.rs:43-60  enum AlgorithmParameters, one record shape for both
\* variants: the fields of the other variant are 0.
Dithering(kr, kg, kb) ==
    [kind |-> "Dithering", k_r |-> kr, k_g |-> kg, k_b |-> kb, k |-> 0]

Popularity(kk) ==
    [kind |-> "Popularity", k_r |-> 0, k_g |-> 0, k_b |-> 0, k |-> kk]

\* algorithms.rs:61-65
AlgorithmCacheKey(alg, ps) == [algorithm |-> alg, params |-> ps]

NoKey == AlgorithmCacheKey("none", [kind |-> "none", k_r |-> 0, k_g |-> 0, k_b |-> 0, k |-> 0])

\* What a ColorQuantizer returns, kept symbolic: the image is determined by
\* the algorithm, the parameters and the source image, and for
\* OrderedDitheringRandom also by what thread_rng() drew (color_quantizers.rs:394).
Quantize(key, src, roll) ==
    [algorithm |-> key.algorithm, params |-> key.params, src |-> src,
     roll |-> IF key.algorithm = "OrderedDitheringRandom" THEN roll ELSE 0]

NoImage == [algorithm |-> "none", params |-> NoKey.params, src |-> 0, roll |-> 0]

\* What thread_rng() can draw, as far as the cache can tell two results apart.
Rolls == {0, 1}

(***************************************************************************)
(* The result cache (processed_images_cache.rs) over lru::LruCache.        *)
(***************************************************************************)
Keys(c) == {c[x].key : x \in DOMAIN c}

IndexOf(c, key) == CHOOSE x \in DOMAIN c : c[x].key = key

ImageOf(c, key) == c[IndexOf(c, key)].image

Without(c, key) == SelectSeq(c, LAMBDA e : e.key # key)

\* A mutant of the lookup: the key is never found.
Contains_Never(c, key) == FALSE

\* LruCache::get_or_insert: self.map.get_mut(&k) is Some
Contains(c, key) == key \in Keys(c)

\* A mutant of the hit path: the entry keeps its place in the recency list.
Touch_NoMove(c, key) == c

\* LruCache::get_or_insert, hit: detach(node); attach(node) moves it to the front
Touch(c, key) == <<c[IndexOf(c, key)]>> \o Without(c, key)

\* LruCache::get_or_insert, miss: replace_or_create_node reuses the node at the
\* tail of the recency list when len == cap, then attach() puts the entry first
Insert(c, cp, key, img) ==
    <<[key |-> key, image |-> img]>> \o
        (IF Len(c) = cp THEN SubSeq(c, 1, Len(c) - 1) ELSE c)

\* A mutant of clear: the most recently used entry survives.
LruClear_KeepNewest(c) == IF c = <<>> THEN c ELSE <<Head(c)>>

\* processed_images_cache.rs:32-34  self.cache.clear()
LruClear(c) == <<>>

\* A mutant of the dispatch: a mismatched variant falls back to the default
\* parameters of the algorithm's family instead of panicking.
create_new_image_Defaulting(key, src, roll) ==
    [panic |-> FALSE,
     image |-> IF AlgorithmType(key.algorithm) = key.params.kind
               THEN Quantize(key, src, roll)
               ELSE Quantize(AlgorithmCacheKey(key.algorithm,
                        IF key.algorithm = "PopularityAlgorithm"
                        THEN Popularity(0) ELSE Dithering(0, 0, 0)), src, roll)]

\* processed_images_cache.rs:36-75
create_new_image(key, src, roll) ==
    IF key.algorithm = "PopularityAlgorithm"
    THEN IF key.params.kind = "Dithering"
         THEN [panic |-> TRUE, image |-> NoImage]
         ELSE [panic |-> FALSE, image |-> Quantize(key, src, roll)]
    ELSE IF key.params.kind = "Popularity"
         THEN [panic |-> TRUE, image |-> NoImage]
         ELSE [panic |-> FALSE, image |-> Quantize(key, src, roll)]

\* processed_images_cache.rs:27-30  get_or_insert(key, || create_new_image(..)):
\* the closure runs before the cache is touched, so a panic leaves it as it was.
\* The result: the cache, the returned image, whether the call panicked,
\* whether it hit and whether a quantizer ran.
CacheGet(c, cp, key, src, roll) ==
    IF Contains(c, key)
    THEN [cache |-> Touch(c, key), ret |-> ImageOf(c, key),
          panic |-> FALSE, hit |-> TRUE, ran |-> 0]
    ELSE LET new == create_new_image(key, src, roll)
         IN  IF new.panic
             THEN [cache |-> c, ret |-> NoImage, panic |-> TRUE, hit |-> FALSE, ran |-> 0]
             ELSE [cache |-> Insert(c, cp, key, new.image), ret |-> new.image,
                   panic |-> FALSE, hit |-> FALSE, ran |-> 1]

(***************************************************************************)
(* The application (app.rs): one eframe update per frame.                  *)
(***************************************************************************)
\* app.rs:15
CACHE_SIZE == 16
\* app.rs:83  Slider::new(&mut ...k, 2..=8192)
MAX_POPULARITY_K == 8192

Max(a, b) == IF a >= b THEN a ELSE b

\* egui::Slider writes the value back clamped to its range when it is shown
\* (app.rs:58, 61, 64).
ClampDithering(ps) ==
    Dithering(Max(MIN_K, Min(MAX_K, ps.k_r)),
              Max(MIN_K, Min(MAX_K, ps.k_g)),
              Max(MIN_K, Min(MAX_K, ps.k_b)))

\* app.rs:81-84
ClampPopularity(ps) == Popularity(Max(MIN_K, Min(MAX_POPULARITY_K, ps.k)))

\* impl Default for App (app.rs:211-226); initial_image 0 is None, an image
\* is the number of the load that produced it; processed_image NoImage is
\* None.  loads counts the files loaded, cleared holds the keys the last
\* clear of the cache discarded.
AppDefault ==
    [previous_algorithm |-> "AverageDithering",
     algorithm |-> "AverageDithering",
     last_processed_dithering_parameters |-> Dithering(0, 0, 0),
     current_dithering_parameters |-> Dithering(0, 0, 0),
     last_processed_popularity_algorithm_parameters |-> Popularity(0),
     current_popularity_algorithm_parameters |-> Popularity(0),
     initial_image |-> 0,
     processed_image |-> NoImage,
     processed_images_cache |-> <<>>,
     need_image_update |-> TRUE,
     panicked |-> FALSE,
     loads |-> 0,
     cleared |-> {}]

\* app.rs:184-195
current_algorithm_cache_key(st) ==
    AlgorithmCacheKey(st.algorithm,
        IF AlgorithmType(st.algorithm) = "Dithering"
        THEN st.current_dithering_parameters
        ELSE st.current_popularity_algorithm_parameters)

\* app.rs:197-208
update_image(st, roll) ==
    IF st.panicked \/ ~st.need_image_update THEN st
    ELSE IF st.initial_image = 0 THEN [st EXCEPT !.need_image_update = FALSE]
    ELSE LET r == CacheGet(st.processed_images_cache, CACHE_SIZE,
                           current_algorithm_cache_key(st), st.initial_image, roll)
         IN  IF r.panic THEN [st EXCEPT !.panicked = TRUE]
             ELSE [st EXCEPT !.processed_images_cache = r.cache,
                             !.processed_image = r.ret,
                             !.need_image_update = FALSE]

\* app.rs:37-44  the radio buttons; radio is the algorithm clicked, or "none"
show_algorithm_radio(st, radio) ==
    LET st1 == IF radio = "none" THEN st ELSE [st EXCEPT !.algorithm = radio]
    IN  IF st1.previous_algorithm # st1.algorithm
        THEN [st1 EXCEPT !.previous_algorithm = st1.algorithm,
                         !.need_image_update = TRUE]
        ELSE st1

\* app.rs:55-77  moved is what the user set the sliders to (kind "none": left
\* alone), busy is any_dragging || any_focus
show_dithering_parameters(st, moved, busy) ==
    LET current == ClampDithering(IF moved.kind = "none"
                                  THEN st.current_dithering_parameters ELSE moved)
        st1     == [st EXCEPT !.current_dithering_parameters = current]
    IN  IF current # st.last_processed_dithering_parameters /\ ~busy
        THEN [st1 EXCEPT !.last_processed_dithering_parameters = current,
                         !.need_image_update = TRUE]
        ELSE st1

\* app.rs:79-96
show_popularity_parameters(st, moved, busy) ==
    LET current == ClampPopularity(IF moved.kind = "none"
                                   THEN st.current_popularity_algorithm_parameters
                                   ELSE moved)
        st1     == [st EXCEPT !.current_popularity_algorithm_parameters = current]
    IN  IF current # st.last_processed_popularity_algorithm_parameters /\ ~busy
        THEN [st1 EXCEPT !.last_processed_popularity_algorithm_parameters = current,
                         !.need_image_update = TRUE]
        ELSE st1

\* app.rs:175-182 with image_loader.rs:7-13; dialog is "cancel" (pick_file is
\* None), "picked" (a file that decodes) or "unreadable" (load_image_from_path
\* is Err and unwrap panics)
file_dialog_change_image(st, dialog) ==
    IF dialog = "picked"
    THEN [st EXCEPT !.initial_image = st.loads + 1, !.loads = st.loads + 1]
    ELSE IF dialog = "unreadable" THEN [st EXCEPT !.panicked = TRUE]
    ELSE st

\* A mutant of the button handler: the cache is not cleared.
show_change_image_button_NoClear(st, clicked, dialog) ==
    IF ~clicked THEN st
    ELSE LET st1 == file_dialog_change_image(st, dialog)
         IN  IF st1.panicked THEN st1
             ELSE [st1 EXCEPT !.need_image_update = TRUE]

\* app.rs:167-173
show_change_image_button(st, clicked, dialog) ==
    IF ~clicked THEN st
    ELSE LET st1 == file_dialog_change_image(st, dialog)
         IN  IF st1.panicked THEN st1
             ELSE [st1 EXCEPT !.processed_images_cache = LruClear(@),
                              !.cleared = Keys(st1.processed_images_cache),
                              !.need_image_update = TRUE]

\* app.rs:31-53
show_controls_panel(st, in) ==
    IF st.panicked THEN st
    ELSE LET st1 == show_algorithm_radio(st, in.radio)
             st2 == IF AlgorithmType(st1.algorithm) = "Dithering"
                    THEN show_dithering_parameters(st1, in.dithering, in.busy)
                    ELSE show_popularity_parameters(st1, in.popularity, in.busy)
         IN  IF st2.initial_image # 0
             THEN show_change_image_button(st2, in.clicked, in.dialog)
             ELSE st2

\* app.rs:109-151, the part that changes the App
show_images(st, roll) ==
    IF st.processed_image = NoImage
    THEN update_image([st EXCEPT !.need_image_update = TRUE], roll)
    ELSE st

\* app.rs:153-165
show_load_initial_image_button(st, clicked, dialog) ==
    IF clicked THEN file_dialog_change_image(st, dialog) ELSE st

\* app.rs:98-107
show_central_panel(st, in) ==
    IF st.panicked THEN st
    ELSE IF st.initial_image # 0 THEN show_images(st, in.roll)
    ELSE show_load_initial_image_button(st, in.clicked, in.dialog)

\* app.rs:228-234  impl eframe::App for App: update
update(st, in) ==
    show_central_panel(show_controls_panel(update_image(st, in.roll), in), in)

(***************************************************************************)
(* Colors and images (egui::Color32, egui::ColorImage).  A Color32 is      *)
(* <<r, g, b, a>> with premultiplied alpha; a ColorImage is its size       *)
(* <<width, height>> and its pixels in raster order.                       *)
(***************************************************************************)
\* Color32::from_rgb
from_rgb(r, g, b) == <<r, g, b, 255>>

\* Color32::to_array: the premultiplied bytes as stored
to_array(c) == c

\* The premultiplication of one channel: round(c * a / 255).  (ecolor
\* multiplies in gamma space and rounds with fast_round; releases before 0.32
\* multiply in linear space.  Both leave a = 255 as it is, send a = 0 to
\* transparent black and darken the rest.)
Premultiply(c, a) == (2 * c * a + 255) \div 510

\* A mutant of the conversion: the bytes are taken as already premultiplied.
Color32_from_rgba_premultiplied(p) == p

\* Color32::from_rgba_unmultiplied
Color32_from_rgba_unmultiplied(p) ==
    IF p[4] = 255 THEN from_rgb(p[1], p[2], p[3])
    ELSE IF p[4] = 0 THEN <<0, 0, 0, 0>>
    ELSE <<Premultiply(p[1], p[4]), Premultiply(p[2], p[4]),
           Premultiply(p[3], p[4]), p[4]>>

\* ColorImage::from_rgba_unmultiplied(size, rgba): every four bytes go
\* through Color32::from_rgba_unmultiplied
ColorImage_from_rgba_unmultiplied(size, rgba) ==
    [size |-> size,
     pixels |-> [x \in DOMAIN rgba |-> Color32_from_rgba_unmultiplied(rgba[x])]]

\* image_loader.rs:7-13  the decoded file, to_rgba8, is unmultiplied RGBA
load_image_from_path(size, rgba) == ColorImage_from_rgba_unmultiplied(size, rgba)

NoColorImage == [size |-> <<0, 0>>, pixels |-> <<>>]

\* The level tables of a call, color_quantizers.rs:181-183 (and 55-57, 308-310)
r_levels(p) == generate_color_levels(p.k_r)
g_levels(p) == generate_color_levels(p.k_g)
b_levels(p) == generate_color_levels(p.k_b)

(***************************************************************************)
(* ErrorDiffusionDitheringColorQuantizer.  The residuals are integers and  *)
(* the weights sixteenths, so the f32 sums are exact.                      *)
(***************************************************************************)
\* color_quantizers.rs:174  ERROR_WAGE_MATRIX, in sixteenths
ERROR_WAGE_MATRIX == <<7, 3, 5, 1>>

\* color_quantizers.rs:137-141
find_closest_level_and_diff(v, lv) ==
    <<find_closest_level(v, lv), v - find_closest_level(v, lv)>>

\* `as u8` on color + error * diff, sixteenths = 16 * color + weight * diff:
\* truncation toward zero, saturating at 0 and 255
SixteenthsAsU8(sixteenths) ==
    IF sixteenths <= 0 THEN 0 ELSE Min(sixteenths \div 16, U8_MAX)

\* color_quantizers.rs:143-154
get_color_with_err(color, error, r_diff, g_diff, b_diff) ==
    from_rgb(SixteenthsAsU8(16 * color[1] + error * r_diff),
             SixteenthsAsU8(16 * color[2] + error * g_diff),
             SixteenthsAsU8(16 * color[3] + error * b_diff))

\* color_quantizers.rs:167-168  the index add_error writes at, 0-based, or -1
add_error_id(len, row, col, width) ==
    IF row * width + col < len THEN row * width + col ELSE -1

\* color_quantizers.rs:157-172; output_pixels[id] is pixels[id + 1] here
add_error(pixels, row, col, width, error, r_diff, g_diff, b_diff) ==
    LET id == add_error_id(Len(pixels), row, col, width)
    IN  IF id >= 0
        THEN [pixels EXCEPT ![id + 1] =
                get_color_with_err(pixels[id + 1], error, r_diff, g_diff, b_diff)]
        ELSE pixels

\* A mutant of the targets: the first call goes to the left neighbour.
ErrorTargets_Backward(column) ==
    <<[dr |-> 0, dc |-> -1, error |-> ERROR_WAGE_MATRIX[1]],
      [dr |-> 1, dc |-> 0, error |-> ERROR_WAGE_MATRIX[3]],
      [dr |-> 1, dc |-> 1, error |-> ERROR_WAGE_MATRIX[4]]>>

\* color_quantizers.rs:198-242  the add_error calls of the pixel at (row, column):
\* the neighbour's row and column offsets and its weight
ErrorTargets(column) ==
    <<[dr |-> 0, dc |-> 1, error |-> ERROR_WAGE_MATRIX[1]]>>
    \o (IF column > 0
        THEN <<[dr |-> 1, dc |-> -1, error |-> ERROR_WAGE_MATRIX[2]]>>
        ELSE <<>>)
    \o <<[dr |-> 1, dc |-> 0, error |-> ERROR_WAGE_MATRIX[3]],
         [dr |-> 1, dc |-> 1, error |-> ERROR_WAGE_MATRIX[4]]>>

RECURSIVE distribute_error(_, _, _, _, _, _)
distribute_error(pixels, targets, row, column, width, diffs) ==
    IF targets = <<>> THEN pixels
    ELSE distribute_error(
            add_error(pixels, row + Head(targets).dr, column + Head(targets).dc,
                      width, Head(targets).error, diffs[1], diffs[2], diffs[3]),
            Tail(targets), row, column, width, diffs)

\* color_quantizers.rs:188-243  one iteration of the loop, at index ix (0-based)
error_diffusion_iteration(pixels, ix, size, p) ==
    LET pixel  == pixels[ix + 1]
        r      == find_closest_level_and_diff(pixel[1], r_levels(p))
        g      == find_closest_level_and_diff(pixel[2], g_levels(p))
        b      == find_closest_level_and_diff(pixel[3], b_levels(p))
        row    == ix \div size[1]
        column == ix - row * size[1]
    IN  distribute_error([pixels EXCEPT ![ix + 1] = from_rgb(r[1], g[1], b[1])],
                         ErrorTargets(column), row, column, size[1],
                         <<r[2], g[2], b[2]>>)

\* The writes add_error made in the iteration at ix: for each call whose id
\* is inside the buffer, the neighbour it was made for and the index written.
error_diffusion_writes(len, ix, size) ==
    LET row     == ix \div size[1]
        column  == ix - row * size[1]
        targets == ErrorTargets(column)
    IN  {[from |-> ix, dr |-> targets[x].dr, dc |-> targets[x].dc,
          id |-> add_error_id(len, row + targets[x].dr, column + targets[x].dc, size[1])] :
            x \in {y \in DOMAIN targets :
                     add_error_id(len, row + targets[y].dr, column + targets[y].dc,
                                  size[1]) >= 0}}

(***************************************************************************)
(* PopularityAlgorithmColorQuantizer.                                      *)
(***************************************************************************)
CountOf(pixels, c) == Cardinality({x \in DOMAIN pixels : pixels[x] = c})

\* A mutant of the sort: ascending, lhs.1.cmp(&rhs.1).
SortedColors_Ascending(pixels) ==
    LET cs == SeqToSet(pixels)
    IN  {s \in [1..Cardinality(cs) -> cs] :
            /\ \A x, y \in DOMAIN s : x # y => s[x] # s[y]
            /\ \A x, y \in DOMAIN s :
                  x < y => CountOf(pixels, s[x]) <= CountOf(pixels, s[y])}

\* color_quantizers.rs:82-87  the (color, count) pairs sorted by count,
\* largest first: HashMap::into_iter yields the colors in any order and
\* sort_by is stable, so colors of equal count come in any order.
SortedColors(pixels) ==
    LET cs == SeqToSet(pixels)
    IN  {s \in [1..Cardinality(cs) -> cs] :
            /\ \A x, y \in DOMAIN s : x # y => s[x] # s[y]
            /\ \A x, y \in DOMAIN s :
                  x < y => CountOf(pixels, s[x]) >= CountOf(pixels, s[y])}

\* color_quantizers.rs:81-89  the palettes the call can return: take(k)
find_most_popular_k_colors(img, kk) ==
    {SubSeq(s, 1, Min(kk, Len(s))) : s \in SortedColors(img.pixels)}

\* color_quantizers.rs:105-111; the f32 squares and sums are exact (< 2^24)
colors_distance(lhs, rhs) ==
    (lhs[1] - rhs[1]) * (lhs[1] - rhs[1])
    + (lhs[2] - rhs[2]) * (lhs[2] - rhs[2])
    + (lhs[3] - rhs[3]) * (lhs[3] - rhs[3])

\* color_quantizers.rs:91-103  Iterator::min_by keeps the first of several
\* minima; on an empty palette expect("Color should never be empty") panics
find_closest_color(pixel, palette) ==
    palette[CHOOSE x \in DOMAIN palette :
                \A y \in DOMAIN palette :
                    /\ colors_distance(pixel, palette[x]) <= colors_distance(pixel, palette[y])
                    /\ colors_distance(pixel, palette[x]) = colors_distance(pixel, palette[y])
                          => x <= y]

\* color_quantizers.rs:117-131 after the palette is found: the chunks are
\* collected in order; a pixel on an empty palette panics
popularity_output_image(img, palette) ==
    IF palette = <<>> /\ img.pixels # <<>>
    THEN [panic |-> TRUE, image |-> NoColorImage]
    ELSE [panic |-> FALSE,
          image |-> ColorImage_from_rgba_unmultiplied(img.size,
                        [x \in DOMAIN img.pixels |->
                            to_array(find_closest_color(img.pixels[x], palette))])]

(***************************************************************************)
(* OrderedDitheringCommon: find_n and the two get_color implementations.   *)
(***************************************************************************)
\* color_quantizers.rs:262-267  the first n of POSSIBLE_N with
\* n * n * (k - 1) >= 256, else the last one
find_n(kk) ==
    LET fits == {x \in DOMAIN POSSIBLE_N :
                    POSSIBLE_N[x] * POSSIBLE_N[x] * (kk - 1) >= 256}
    IN  IF fits # {}
        THEN POSSIBLE_N[CHOOSE x \in fits : \A y \in fits : x <= y]
        ELSE POSSIBLE_N[Len(POSSIBLE_N)]

\* A mutant of the comparison: re >= threshold.
RemainderExceeds_OrEqual(re, threshold) == re >= threshold

\* color_quantizers.rs:366 and 401  re > (matrix[i][j] as usize * 255 / n_sq)
RemainderExceeds(re, threshold) == re > threshold

\* color_quantizers.rs:360-371 and 395-406  the body both get_color
\* implementations share once i and j are known; levels[final_col] panics
\* when final_col is not below levels.len()
get_color_cell(v, lv, mx, i, j, nn) ==
    LET n_sq         == nn * nn
        scaled_value == v * (Len(lv) - 1)
        col          == scaled_value \div 255
        re           == scaled_value % 255
        final_col    == IF RemainderExceeds(re, (mx[i][j] * 255) \div n_sq)
                        THEN col + 1
                        ELSE col
    IN  [i |-> i, j |-> j, col |-> col, re |-> re, final_col |-> final_col,
         panic |-> final_col >= Len(lv),
         out |-> IF final_col < Len(lv) THEN lv[final_col + 1] ELSE -1]

\* color_quantizers.rs:352-372  OrderedDitheringRelativeColorQuantizer::get_color
get_color_Relative(v, lv, mx, x, y, nn) ==
    get_color_cell(v, lv, mx, x % nn, y % nn, nn)

\* color_quantizers.rs:386-407  OrderedDitheringRandomColorQuantizer::get_color;
\* roll_i and roll_j are what rng.gen_range(0..=(n - 1)) draws
get_color_Random(v, lv, mx, roll_i, roll_j, nn) ==
    get_color_cell(v, lv, mx, roll_i, roll_j, nn)

NoCall ==
    [quantizer |-> "none", value |-> -1, i |-> -1, j |-> -1, col |-> -1, re |-> -1,
     final_col |-> -1, panic |-> FALSE, out |-> -1]

(***************************************************************************)
(* The data-parallel quantizers: par_chunks hands each chunk of the pixels *)
(* to a closure, on any worker and in any order; a closure reads the       *)
(* chunk and the tables and returns its own Vec; collect() puts the Vecs   *)
(* together in the order of the chunks.                                    *)
(***************************************************************************)
\* color_quantizers.rs:60  par_chunks(256)
AVERAGE_CHUNK_SIZE == 256
\* color_quantizers.rs:319
CHUNK_SIZE == 512

\* slice::par_chunks(chunk_size): the number of chunks of len items
NumChunks(len, chunk_size) == (len + chunk_size - 1) \div chunk_size

\* slice::par_chunks(chunk_size): the chunk with id chunk_id (0-based); the
\* last one may be shorter
par_chunk(pixels, chunk_id, chunk_size) ==
    SubSeq(pixels, chunk_id * chunk_size + 1,
           Min((chunk_id + 1) * chunk_size, Len(pixels)))

\* What a chunk's closure returned: the RGBA bytes, four per pixel; whether
\* an index panicked; ids is the index the closure reconstructed for each
\* pixel (empty where the closure computes none).
NoChunkResult == [done |-> FALSE, panic |-> FALSE, ids |-> <<>>, bytes |-> <<>>]

\* color_quantizers.rs:61-71  the closure of AverageDithering on one chunk
average_chunk(chunk, rl, gl, bl) ==
    [done  |-> TRUE,
     panic |-> FALSE,
     ids   |-> <<>>,
     bytes |-> [x \in DOMAIN chunk |->
                  to_array(from_rgb(find_closest_level(chunk[x][1], rl),
                                    find_closest_level(chunk[x][2], gl),
                                    find_closest_level(chunk[x][3], bl)))]]

\* rng.gen_range(0..=(n - 1)): the draw for pixel id, channel ch (0, 1, 2) and
\* axis (0 for i, 1 for j) in the stream of draws numbered stream
gen_range(stream, id, ch, axis, nn) ==
    (stream * (id + 1) + 2 * ch + axis) % nn

\* color_quantizers.rs:335-337  Self::get_color for channel ch of the pixel
ordered_get_color(alg, v, lv, mx, x, y, nn, stream, id, ch) ==
    IF alg = "OrderedDitheringRelative"
    THEN get_color_Relative(v, lv, mx, x, y, nn)
    ELSE get_color_Random(v, lv, mx, gen_range(stream, id, ch, 0, nn),
                          gen_range(stream, id, ch, 1, nn), nn)

\* color_quantizers.rs:331-340  the inner closure: one pixel of a chunk
ordered_pixel(alg, chunk_id, pixel_id, pixel, size, lvs, ms, ns, stream) ==
    LET id    == chunk_id * CHUNK_SIZE + pixel_id
        x     == id \div size[1]
        y     == id - x * size[1]
        new_r == ordered_get_color(alg, pixel[1], lvs[1], ms[1], x, y, ns[1], stream, id, 0)
        new_g == ordered_get_color(alg, pixel[2], lvs[2], ms[2], x, y, ns[2], stream, id, 1)
        new_b == ordered_get_color(alg, pixel[3], lvs[3], ms[3], x, y, ns[3], stream, id, 2)
    IN  [id    |-> id,
         panic |-> new_r.panic \/ new_g.panic \/ new_b.panic,
         rgba  |-> to_array(from_rgb(new_r.out, new_g.out, new_b.out))]

\* color_quantizers.rs:327-342  the closure of ordered dithering on one chunk
ordered_chunk(alg, chunk_id, chunk, size, lvs, ms, ns, stream) ==
    LET px == [x \in DOMAIN chunk |->
                  ordered_pixel(alg, chunk_id, x - 1, chunk[x], size, lvs, ms, ns, stream)]
    IN  [done  |-> TRUE,
         panic |-> \E x \in DOMAIN px : px[x].panic,
         ids   |-> [x \in DOMAIN px |-> px[x].id],
         bytes |-> [x \in DOMAIN px |-> px[x].rgba]]

NoTables == [levels |-> <<>>, n |-> <<>>, matrix |-> <<>>]

\* color_quantizers.rs:55-57, 181-183 and 308-317  the level tables of the
\* three channels and, for ordered dithering, each channel's n and matrix
dithering_tables(alg, p) ==
    [levels |-> <<r_levels(p), g_levels(p), b_levels(p)>>,
     n      |-> IF alg \in {"OrderedDitheringRelative", "OrderedDitheringRandom"}
                THEN <<find_n(p.k_r), find_n(p.k_g), find_n(p.k_b)>>
                ELSE <<>>,
     matrix |-> IF alg \in {"OrderedDitheringRelative", "OrderedDitheringRandom"}
                THEN <<generate_matrix(find_n(p.k_r)), generate_matrix(find_n(p.k_g)),
                       generate_matrix(find_n(p.k_b))>>
                ELSE <<>>]

\* A mutant of collect(): the Vecs in the order the closures returned.
CollectOrder_AsFinished(fin, nchunks) == fin

\* rayon's collect() into a Vec keeps the order of the chunks, whatever the
\* order the closures returned in: chunk ids 0, 1, ...
CollectOrder(fin, nchunks) == [c \in 1..nchunks |-> c - 1]

RECURSIVE flat_map(_, _)
flat_map(results, order) ==
    IF order = <<>> THEN <<>>
    ELSE results[Head(order) + 1].bytes \o flat_map(results, Tail(order))

\* color_quantizers.rs:72-74 and 343-345  .collect() and
\* ColorImage::from_rgba_unmultiplied; a panic in a closure is the call's
collect(results, fin, size) ==
    IF \E c \in DOMAIN results : results[c].panic
    THEN [done |-> TRUE, panic |-> TRUE, image |-> NoColorImage]
    ELSE [done |-> TRUE, panic |-> FALSE,
          image |-> ColorImage_from_rgba_unmultiplied(size,
                        flat_map(results, CollectOrder(fin, Len(results))))]

(***************************************************************************)
(* The parts of the state a specification does not use stay as they are    *)
(* before anything has run.                                                *)
(***************************************************************************)
CacheIdle ==
    /\ cache = <<>>
    /\ ret = NoImage
    /\ panicked = FALSE
    /\ invoked = 0
    /\ op = [name |-> "new", key |-> NoKey, hit |-> FALSE, seen |-> FALSE]
    /\ useOrder = <<>>
    /\ clearedKeys = {}

TableIdle ==
    /\ k = 0
    /\ levels = <<>>
    /\ value = -1
    /\ level = -1
    /\ n = 0
    /\ matrix = <<>>

AppIdle == app = AppDefault

QuantIdle ==
    /\ image = NoColorImage
    /\ params = NoKey.params
    /\ output_pixels = <<>>
    /\ loop_i = 0
    /\ writes = {}
    /\ colors = <<>>
    /\ output = [done |-> FALSE, panic |-> FALSE, image |-> NoColorImage]

ParIdle ==
    /\ algorithm = "none"
    /\ call = NoCall
    /\ tables = NoTables
    /\ rng = 0
    /\ chunk_results = <<>>
    /\ finished = <<>>

(***************************************************************************)
(* Specification of the tables: a run builds the level table for some k    *)
(* and looks some value up in it, or generates a threshold matrix.         *)
(***************************************************************************)
TableInit ==
    /\ TableIdle
    /\ cap = 1
    /\ CacheIdle
    /\ AppIdle
    /\ QuantIdle
    /\ ParIdle

\* DitheringCommon::generate_color_levels(k), k from the slider range
GenerateColorLevels(kk) ==
    /\ levels = <<>>
    /\ matrix = <<>>
    /\ k' = kk
    /\ levels' = generate_color_levels(kk)
    /\ value' = -1
    /\ level' = -1
    /\ UNCHANGED <<n, matrix>>
    /\ UNCHANGED cacheVars
    /\ UNCHANGED app
    /\ UNCHANGED quantVars
    /\ UNCHANGED parVars

\* DitheringCommon::find_closest_level(value, &levels), value: u8
FindClosestLevel(v) ==
    /\ levels # <<>>
    /\ value = -1
    /\ value' = v
    /\ level' = find_closest_level(v, levels)
    /\ UNCHANGED <<k, levels, n, matrix>>
    /\ UNCHANGED cacheVars
    /\ UNCHANGED app
    /\ UNCHANGED quantVars
    /\ UNCHANGED parVars

\* OrderedDitheringCommon::generate_matrix(n), n one of POSSIBLE_N
GenerateMatrix(nn) ==
    /\ levels = <<>>
    /\ matrix = <<>>
    /\ n' = nn
    /\ matrix' = generate_matrix(nn)
    /\ UNCHANGED <<k, levels, value, level>>
    /\ UNCHANGED cacheVars
    /\ UNCHANGED app
    /\ UNCHANGED quantVars
    /\ UNCHANGED parVars

TableNext ==
    \/ \E kk \in MIN_K..MAX_K : GenerateColorLevels(kk)
    \/ \E v \in 0..U8_MAX : FindClosestLevel(v)
    \/ \E x \in DOMAIN POSSIBLE_N : GenerateMatrix(POSSIBLE_N[x])

SpecTables == TableInit /\ [][TableNext]_vars

(***************************************************************************)
(* Specification of the cache alone: any sequence of get and clear calls.  *)
(***************************************************************************)
\* The largest capacity a cache is constructed with here, and the most
\* quantizer runs of one behaviour.
MaxCap == 2
MaxInvoked == 4

\* The keys and source images the calls are made with: two parameter values
\* under one algorithm, the same parameters under all four dithering
\* algorithms, and a key of the wrong parameter variant per algorithm.
CallKeys ==
    {AlgorithmCacheKey(a, Dithering(2, 2, 2)) : a \in Algorithm}
    \cup {AlgorithmCacheKey(a, Popularity(2)) : a \in Algorithm}
    \cup {AlgorithmCacheKey("AverageDithering", Dithering(3, 2, 2))}

SourceImages == {1}

\* processed_images_cache.rs:20-23  ProcessedImagesCache::new(size: NonZero<usize>)
CacheInit ==
    /\ cap \in 1..MaxCap
    /\ CacheIdle
    /\ TableIdle
    /\ AppIdle
    /\ QuantIdle
    /\ ParIdle

\* ProcessedImagesCache::get(key, initial_image)
Get(key, src, roll) ==
    LET r == CacheGet(cache, cap, key, src, roll)
    IN  /\ ~panicked
        /\ invoked + r.ran <= MaxInvoked
        /\ cache' = r.cache
        /\ ret' = r.ret
        /\ panicked' = r.panic
        /\ invoked' = invoked + r.ran
        /\ op' = [name |-> "get", key |-> key, hit |-> r.hit,
                  seen |-> key \in SeqToSet(useOrder)]
        /\ useOrder' = IF r.panic THEN useOrder
                       ELSE <<key>> \o SelectSeq(useOrder, LAMBDA u : u # key)
        /\ UNCHANGED <<cap, clearedKeys>>
        /\ UNCHANGED tableVars
        /\ UNCHANGED app
        /\ UNCHANGED quantVars
    /\ UNCHANGED parVars

\* ProcessedImagesCache::clear()
Clear ==
    /\ ~panicked
    /\ cache' = LruClear(cache)
    /\ op' = [name |-> "clear", key |-> NoKey, hit |-> FALSE, seen |-> FALSE]
    /\ useOrder' = <<>>
    /\ clearedKeys' = Keys(cache)
    /\ UNCHANGED <<cap, ret, panicked, invoked>>
    /\ UNCHANGED tableVars
    /\ UNCHANGED app
    /\ UNCHANGED quantVars
    /\ UNCHANGED parVars

CacheNext ==
    \/ \E key \in CallKeys, src \in SourceImages, roll \in Rolls : Get(key, src, roll)
    \/ Clear

SpecCache == CacheInit /\ [][CacheNext]_vars

(***************************************************************************)
(* Specification of the application: frames with what the user does in     *)
(* each.                                                                   *)
(***************************************************************************)
\* The most image files one behaviour loads.
MaxLoads == 2

\* What the user can do in one frame: click a radio button, move the sliders
\* of the panel shown (and keep hold of them or not), click the load or change
\* button and answer the file dialog; roll is what thread_rng() draws.
Untouched == NoKey.params

FrameInputs ==
    {in \in [radio      : {"none", "AverageDithering", "PopularityAlgorithm"},
             dithering  : {Untouched, Dithering(3, 2, 2)},
             popularity : {Untouched, Popularity(3)},
             busy       : BOOLEAN,
             clicked    : BOOLEAN,
             dialog     : {"cancel", "picked", "unreadable"},
             roll       : Rolls] :
        \* no dialog opens unless a button is clicked
        in.clicked \/ in.dialog = "cancel"}

AppInit ==
    /\ app = AppDefault
    /\ TableIdle
    /\ cap = 1
    /\ CacheIdle
    /\ QuantIdle
    /\ ParIdle

\* eframe calls App::update once per frame
Update(in) ==
    LET new == update(app, in)
    IN  /\ ~app.panicked
        /\ new.loads <= MaxLoads
        /\ app' = new
        /\ UNCHANGED tableVars
        /\ UNCHANGED cacheVars
        /\ UNCHANGED quantVars
    /\ UNCHANGED parVars

AppNext == \E in \in FrameInputs : Update(in)

SpecApp == AppInit /\ [][AppNext]_vars

(***************************************************************************)
(* Specification of one ErrorDiffusionDithering call: the raster loop,     *)
(* one iteration per step.                                                 *)
(***************************************************************************)
\* The largest width and height of the images of an error-diffusion call.
MaxWidth == 3
MaxHeight == 2

\* The decoded files: every size up to the bounds, the pixels unmultiplied
\* RGBA bytes.
FileImages(maxw, maxh, rgba) ==
    UNION {{load_image_from_path(<<w, h>>, px) : px \in [1..(w * h) -> rgba]} :
                w \in 0..maxw, h \in 0..maxh}

ErrorDiffusionFilePixels == {<<100, 150, 200, 255>>, <<30, 220, 128, 255>>}

ErrorDiffusionParams == {Dithering(2, 2, 2), Dithering(3, 2, 4)}

\* color_quantizers.rs:180-187  up to let mut output_pixels = pixels.clone()
ErrorDiffusionInit ==
    /\ image \in FileImages(MaxWidth, MaxHeight, ErrorDiffusionFilePixels)
    /\ params \in ErrorDiffusionParams
    /\ output_pixels = image.pixels
    /\ loop_i = 0
    /\ writes = {}
    /\ colors = <<>>
    /\ output = [done |-> FALSE, panic |-> FALSE, image |-> NoColorImage]
    /\ TableIdle
    /\ cap = 1
    /\ CacheIdle
    /\ AppIdle
    /\ ParIdle

\* color_quantizers.rs:188-243  for i in 0..output_pixels.len()
ErrorDiffusionIteration ==
    /\ ~output.done
    /\ loop_i < Len(output_pixels)
    /\ output_pixels' = error_diffusion_iteration(output_pixels, loop_i, image.size, params)
    /\ writes' = error_diffusion_writes(Len(output_pixels), loop_i, image.size)
    /\ loop_i' = loop_i + 1
    /\ UNCHANGED <<image, params, colors, output>>
    /\ UNCHANGED <<tableVars, cacheVars, app>>
    /\ UNCHANGED parVars

\* color_quantizers.rs:245-252
ErrorDiffusionReturn ==
    /\ ~output.done
    /\ loop_i = Len(output_pixels)
    /\ output' = [done |-> TRUE, panic |-> FALSE,
                  image |-> ColorImage_from_rgba_unmultiplied(image.size,
                                [x \in DOMAIN output_pixels |-> to_array(output_pixels[x])])]
    /\ writes' = {}
    /\ UNCHANGED <<image, params, output_pixels, loop_i, colors>>
    /\ UNCHANGED <<tableVars, cacheVars, app>>
    /\ UNCHANGED parVars

ErrorDiffusionNext == ErrorDiffusionIteration \/ ErrorDiffusionReturn

SpecErrorDiffusion == ErrorDiffusionInit /\ [][ErrorDiffusionNext]_vars

(***************************************************************************)
(* Specification of one PopularityAlgorithm call.                          *)
(***************************************************************************)
\* The largest width and height of the images of a popularity call and the
\* largest k.
MaxPopWidth == 2
MaxPopHeight == 2
MaxPopK == 2

\* Two opaque colors, the color halfway between them (as far from one as
\* from the other) and a half-transparent one, as the file has them.
PopularityFilePixels ==
    {<<200, 100, 50, 255>>, <<10, 20, 30, 255>>, <<105, 60, 40, 255>>,
     <<200, 100, 50, 128>>}

PopularityInit ==
    /\ image \in FileImages(MaxPopWidth, MaxPopHeight, PopularityFilePixels)
    /\ params \in {Popularity(kk) : kk \in 1..MaxPopK}
    /\ output_pixels = <<>>
    /\ loop_i = 0
    /\ writes = {}
    /\ colors = <<>>
    /\ output = [done |-> FALSE, panic |-> FALSE, image |-> NoColorImage]
    /\ TableIdle
    /\ cap = 1
    /\ CacheIdle
    /\ AppIdle
    /\ ParIdle

\* color_quantizers.rs:117-131  PopularityAlgorithmColorQuantizer::generate_output_image
PopularityGenerate ==
    /\ ~output.done
    /\ \E palette \in find_most_popular_k_colors(image, params.k) :
          /\ colors' = palette
          /\ output' = [done |-> TRUE] @@ popularity_output_image(image, palette)
    /\ UNCHANGED <<image, params, output_pixels, loop_i, writes>>
    /\ UNCHANGED <<tableVars, cacheVars, app>>
    /\ UNCHANGED parVars

PopularityNext == PopularityGenerate

SpecPopularity == PopularityInit /\ [][PopularityNext]_vars

(***************************************************************************)
(* Specification of get_color: a run builds the level table and the        *)
(* threshold matrix of one channel for some k, as                          *)
(* ordered_dithering_output_image does, and makes one get_color call.      *)
(***************************************************************************)
GetColorInit ==
    /\ TableIdle
    /\ cap = 1
    /\ CacheIdle
    /\ AppIdle
    /\ QuantIdle
    /\ ParIdle

\* color_quantizers.rs:308-317  the levels, n and matrix of one channel
OrderedTables(kk) ==
    /\ levels = <<>>
    /\ k' = kk
    /\ levels' = generate_color_levels(kk)
    /\ n' = find_n(kk)
    /\ matrix' = generate_matrix(find_n(kk))
    /\ UNCHANGED <<value, level>>
    /\ UNCHANGED <<cacheVars, app, quantVars, parVars>>

\* OrderedDitheringRelativeColorQuantizer::get_color(value, &levels, &matrix, x, y, n)
GetColorRelative(v, x, y) ==
    /\ levels # <<>>
    /\ call = NoCall
    /\ call' = [quantizer |-> "OrderedDitheringRelative", value |-> v]
                    @@ get_color_Relative(v, levels, matrix, x, y, n)
    /\ UNCHANGED <<algorithm, tables, rng, chunk_results, finished>>
    /\ UNCHANGED <<tableVars, cacheVars, app, quantVars>>

\* OrderedDitheringRandomColorQuantizer::get_color(value, &levels, &matrix, _, _, n)
GetColorRandom(v, roll_i, roll_j) ==
    /\ levels # <<>>
    /\ call = NoCall
    /\ call' = [quantizer |-> "OrderedDitheringRandom", value |-> v]
                    @@ get_color_Random(v, levels, matrix, roll_i, roll_j, n)
    /\ UNCHANGED <<algorithm, tables, rng, chunk_results, finished>>
    /\ UNCHANGED <<tableVars, cacheVars, app, quantVars>>

\* The pixel rows and columns of the calls reach one past the matrix, where
\* x % n wraps to 0.
GetColorNext ==
    \/ /\ levels = <<>>
       /\ \E kk \in MIN_K..MAX_K : OrderedTables(kk)
    \/ /\ call = NoCall
       /\ \E v \in 0..U8_MAX, x \in 0..n, y \in 0..n : GetColorRelative(v, x, y)
    \/ /\ call = NoCall
       /\ \E v \in 0..U8_MAX, roll_i \in 0..(n - 1), roll_j \in 0..(n - 1) :
             GetColorRandom(v, roll_i, roll_j)

SpecGetColor == GetColorInit /\ [][GetColorNext]_vars

(***************************************************************************)
(* Specification of one call of a dithering quantizer: the raster loop of  *)
(* ErrorDiffusionDithering, or the chunks of the other three, processed in *)
(* any order, and the collect.                                             *)
(***************************************************************************)
\* The largest width and height of the small images of a dithering call, the
\* most chunks an image is split in, the width of the images of several
\* chunks, how many pixel patterns they are filled with and the largest
\* number of a stream of draws.
MaxDitherWidth == 2
MaxDitherHeight == 2
MaxChunks == 3
LargeWidth == 40
MaxPattern == 1
MaxStream == 1

ParallelAlgorithms ==
    {"AverageDithering", "OrderedDitheringRelative", "OrderedDitheringRandom"}

DitheringAlgorithms == ParallelAlgorithms \cup {"ErrorDiffusionDithering"}

\* The chunk size of a quantizer's par_chunks
ChunkSizeOf(alg) ==
    IF alg = "AverageDithering" THEN AVERAGE_CHUNK_SIZE ELSE CHUNK_SIZE

DitheringParams == ErrorDiffusionParams \cup {Dithering(40, 6, 17)}

\* The height at which an image LargeWidth wide has more pixels than
\* nchunks - 1 chunks hold, so that it is split in nchunks chunks
LargeHeight(nchunks, chunk_size) ==
    ((nchunks - 1) * chunk_size + LargeWidth) \div LargeWidth

\* A decoded file of several chunks: its bytes follow a pattern, every
\* fifth pixel half-transparent
PatternImage(w, h, pattern) ==
    load_image_from_path(<<w, h>>,
        [x \in 1..(w * h) |->
            <<(x * (36 + pattern)) % 256, (x * 3 * pattern + 7) % 256,
              (x + 100 * pattern) % 256, IF x % 5 = 0 THEN 128 ELSE 255>>])

\* The images a quantizer is called on: the small ones of every content and,
\* for the chunked quantizers, images of two up to MaxChunks chunks
DitheringImages(alg) ==
    FileImages(MaxDitherWidth, MaxDitherHeight, ErrorDiffusionFilePixels)
    \cup (IF alg \in ParallelAlgorithms
          THEN {PatternImage(LargeWidth, LargeHeight(nc, ChunkSizeOf(alg)), pt) :
                    nc \in 2..MaxChunks, pt \in 1..MaxPattern}
          ELSE {})

DitheringInit ==
    /\ algorithm \in DitheringAlgorithms
    /\ image \in DitheringImages(algorithm)
    /\ params \in DitheringParams
    /\ output_pixels =
          IF algorithm = "ErrorDiffusionDithering" THEN image.pixels ELSE <<>>
    /\ loop_i = 0
    /\ writes = {}
    /\ colors = <<>>
    /\ output = [done |-> FALSE, panic |-> FALSE, image |-> NoColorImage]
    /\ call = NoCall
    /\ tables = dithering_tables(algorithm, params)
    /\ rng \in (IF algorithm = "OrderedDitheringRandom" THEN 0..MaxStream ELSE {0})
    /\ chunk_results =
          IF algorithm \in ParallelAlgorithms
          THEN [c \in 1..NumChunks(Len(image.pixels), ChunkSizeOf(algorithm)) |->
                    NoChunkResult]
          ELSE <<>>
    /\ finished = <<>>
    /\ TableIdle
    /\ cap = 1
    /\ CacheIdle
    /\ AppIdle

\* color_quantizers.rs:58-72  a worker runs the closure on chunk chunk_id
AverageChunk(chunk_id) ==
    /\ algorithm = "AverageDithering"
    /\ ~output.done
    /\ ~chunk_results[chunk_id + 1].done
    /\ chunk_results' =
          [chunk_results EXCEPT ![chunk_id + 1] =
              average_chunk(par_chunk(image.pixels, chunk_id, AVERAGE_CHUNK_SIZE),
                            tables.levels[1], tables.levels[2], tables.levels[3])]
    /\ finished' = Append(finished, chunk_id)
    /\ UNCHANGED <<algorithm, call, tables, rng>>
    /\ UNCHANGED <<tableVars, cacheVars, app, quantVars>>

\* color_quantizers.rs:323-342  a worker runs the closure on chunk chunk_id
OrderedChunk(chunk_id) ==
    /\ algorithm \in {"OrderedDitheringRelative", "OrderedDitheringRandom"}
    /\ ~output.done
    /\ ~chunk_results[chunk_id + 1].done
    /\ chunk_results' =
          [chunk_results EXCEPT ![chunk_id + 1] =
              ordered_chunk(algorithm, chunk_id,
                            par_chunk(image.pixels, chunk_id, CHUNK_SIZE),
                            image.size, tables.levels, tables.matrix, tables.n, rng)]
    /\ finished' = Append(finished, chunk_id)
    /\ UNCHANGED <<algorithm, call, tables, rng>>
    /\ UNCHANGED <<tableVars, cacheVars, app, quantVars>>

\* color_quantizers.rs:72-74 and 343-345  every closure has returned
Collect ==
    /\ algorithm \in ParallelAlgorithms
    /\ ~output.done
    /\ \A c \in DOMAIN chunk_results : chunk_results[c].done
    /\ output' = collect(chunk_results, finished, image.size)
    /\ UNCHANGED <<image, params, output_pixels, loop_i, writes, colors>>
    /\ UNCHANGED <<tableVars, cacheVars, app, parVars>>

DitheringNext ==
    \/ /\ algorithm = "ErrorDiffusionDithering"
       /\ ErrorDiffusionNext
    \/ \E c \in DOMAIN chunk_results : AverageChunk(c - 1)
    \/ \E c \in DOMAIN chunk_results : OrderedChunk(c - 1)
    \/ Collect

SpecDithering == DitheringInit /\ [][DitheringNext]_vars

(***************************************************************************)
(* Claims about the tables.                                                *)
(***************************************************************************)
Abs(x) == IF x < 0 THEN 0 - x ELSE x

\* round(a / b) over the rationals, a >= 0, b > 0, halves up.
RoundedQuotient(a, b) == (2 * a + b) \div (2 * b)

\* C6: for every k in [2,255] the level table built for k has exactly k
\* entries, entry i equals round(i*255/(k-1)) and lies in [0,255], the entries
\* are strictly increasing, the first is 0 and the last is 255.
C6_LevelTable ==
    levels # <<>> =>
        /\ k \in MIN_K..MAX_K
        /\ Len(levels) = k
        /\ \A i \in 0..(k - 1) :
              /\ levels[i + 1] = RoundedQuotient(i * 255, k - 1)
              /\ levels[i + 1] \in 0..255
        /\ \A i \in 1..(k - 1) : levels[i] < levels[i + 1]
        /\ levels[1] = 0
        /\ levels[k] = 255

\* The table for k = 255, whose quotients i*255/254 round at 24 bits.
C6_Witness == k = 255 /\ Len(levels) = 255 /\ levels[128] = 128 /\ value = -1

\* C7: for every level table and every value in [0,255] the lookup returns
\* an entry of the table, no other entry is strictly closer to the value, and
\* of two equidistant levels it returns the lower one.
C7_NearestLevel ==
    level # -1 =>
        /\ level \in SeqToSet(levels)
        /\ \A x \in DOMAIN levels : Abs(level - value) <= Abs(levels[x] - value)
        /\ \A x \in DOMAIN levels :
              Abs(levels[x] - value) = Abs(level - value) => level <= levels[x]

\* A tie: 64 is 64 away from both 0 and 128 in the table <<0, 128, 255>>.
C7_Witness == k = 3 /\ levels = <<0, 128, 255>> /\ value = 64 /\ level = 0

\* C8: for every n in {2,3,4,6,8,12,16} the generated threshold matrix is n by
\* n and contains each integer in [0, n*n) exactly once.
C8_MatrixIsPermutation ==
    matrix # <<>> =>
        /\ \E x \in DOMAIN POSSIBLE_N : POSSIBLE_N[x] = n
        /\ DOMAIN matrix = 0..(n - 1)
        /\ \A i \in 0..(n - 1) : DOMAIN matrix[i] = 0..(n - 1)
        /\ {matrix[i][j] : i \in 0..(n - 1), j \in 0..(n - 1)} = 0..(n * n - 1)

\* The 12 by 12 matrix, tiled twice from the hand-written 3 by 3 one.
C8_Witness == n = 12 /\ matrix # <<>> /\ matrix[0][0] = 96 /\ matrix[11][11] = 117

(***************************************************************************)
(* Claims about the cache.                                                 *)
(***************************************************************************)
\* The key of ks that was got longest ago, by the history of the calls.
LeastRecentlyUsed(ks, order) ==
    CHOOSE key \in ks :
        \A other \in ks :
            \A x, y \in DOMAIN order :
                (order[x] = key /\ order[y] = other) => y <= x

\* C1: with no clear and no eviction in between, the quantizer runs at most
\* once per key: a get on a key that is present returns the stored image
\* without running a quantizer, the image a missing get returns is the one it
\* stores, and a stored image never changes while its key stays (so a hit
\* returns what the first get returned, also for OrderedDitheringRandom).
C1_HitReturnsStoredImage ==
    [][/\ (op'.name = "get" /\ op'.key \in Keys(cache)) =>
             /\ invoked' = invoked
             /\ ~panicked'
             /\ ret' = ImageOf(cache, op'.key)
       /\ (op'.name = "get" /\ op'.key \notin Keys(cache) /\ ~panicked') =>
             /\ op'.key \in Keys(cache')
             /\ ret' = ImageOf(cache', op'.key)
       /\ \A key \in Keys(cache) \cap Keys(cache') :
             ImageOf(cache', key) = ImageOf(cache, key)]_vars

\* A hit on an OrderedDitheringRandom key after a single quantizer run.
C1_Witness ==
    /\ op.name = "get"
    /\ op.hit
    /\ op.key.algorithm = "OrderedDitheringRandom"
    /\ ret = Quantize(op.key, 1, 1)
    /\ invoked = 1

\* C2: a get that misses on a full cache evicts exactly one entry, the least
\* recently used one by the history of hits and inserts; a get on a key that
\* is not present (an evicted one included) runs the quantizer; a hit evicts
\* nothing; the capacity never changes and is never exceeded.
C2_EvictsLeastRecentlyUsed ==
    [][/\ cap' = cap
       /\ Len(cache') <= cap
       /\ Cardinality(Keys(cache')) = Len(cache')
       /\ (op'.name = "get" /\ op'.key \notin Keys(cache) /\ ~panicked') =>
             /\ invoked' = invoked + 1
             /\ IF Len(cache) = cap
                THEN Keys(cache') =
                        (Keys(cache) \ {LeastRecentlyUsed(Keys(cache), useOrder)})
                            \cup {op'.key}
                ELSE Keys(cache') = Keys(cache) \cup {op'.key}
       /\ (op'.name = "get" /\ op'.key \in Keys(cache)) =>
             Keys(cache') = Keys(cache)]_vars

\* A get on a full cache of capacity 2 that misses on a key got earlier:
\* the key had been evicted, and is computed again.
C2_Witness ==
    /\ op.name = "get"
    /\ ~op.hit
    /\ op.seen
    /\ cap = 2
    /\ Len(cache) = 2
    /\ invoked = 4

\* C3: clear leaves the cache empty, and the get right after a clear runs
\* the quantizer whatever its key, also a key the clear discarded.
C3_ClearThenGetRecomputes ==
    [][/\ op'.name = "clear" => cache' = <<>>
       /\ (op.name = "clear" /\ op'.name = "get" /\ ~panicked') =>
             /\ ~op'.hit
             /\ invoked' = invoked + 1
             /\ ret' = ImageOf(cache', op'.key)]_vars

\* The first get after a clear, on a key the clear discarded.
C3_Witness ==
    /\ op.name = "get"
    /\ op.key \in clearedKeys
    /\ ~op.hit
    /\ Len(useOrder) = 1
    /\ invoked = 2

\* C5: for each algorithm, a get with a key whose parameters variant does not
\* match the algorithm's family misses and aborts: it panics, returns no
\* image, runs no quantizer and leaves the cache as it was; such a key is
\* never stored.
C5_MismatchedKeyPanics ==
    [][/\ (op'.name = "get" /\ AlgorithmType(op'.key.algorithm) # op'.key.params.kind) =>
             /\ op'.key \notin Keys(cache)
             /\ panicked'
             /\ ret' = NoImage
             /\ invoked' = invoked
             /\ cache' = cache
       /\ \A key \in Keys(cache') : AlgorithmType(key.algorithm) = key.params.kind]_vars

\* The panic on a full cache, for Dithering parameters under PopularityAlgorithm.
C5_Witness ==
    /\ panicked
    /\ op.key = AlgorithmCacheKey("PopularityAlgorithm", Dithering(2, 2, 2))
    /\ ret = NoImage
    /\ cap = 2
    /\ Len(cache) = 2

(***************************************************************************)
(* Claims about the application.                                           *)
(***************************************************************************)
\* C4: over any sequence of frames and user actions, every entry of the
\* result cache was computed from the current source image.
C4_CacheHoldsCurrentImageOnly ==
    \A x \in DOMAIN app.processed_images_cache :
        app.processed_images_cache[x].image.src = app.initial_image

\* The image has been replaced while the cache held entries, and the cache
\* holds an entry again, computed from the second image.
C4_Witness ==
    /\ ~app.panicked
    /\ app.initial_image = 2
    /\ app.cleared # {}
    /\ app.processed_images_cache # <<>>
    /\ app.processed_image.src = 2

(***************************************************************************)
(* Claims about the quantizers.                                            *)
(***************************************************************************)
\* C9: in ErrorDiffusionDithering the residual of the pixel at (row, col) is
\* added only to those of its right, below-left, below and below-right
\* neighbours that lie inside the image: a target whose column or row is
\* outside the image is skipped, and a pixel in the last column never
\* modifies a pixel in column 0 of a following row.
C9_ErrorStaysInsideImage ==
    \A w \in writes :
        LET width  == image.size[1]
            height == image.size[2]
            row    == w.from \div width
            col    == w.from % width
        IN  /\ col + w.dc \in 0..(width - 1)
            /\ row + w.dr \in 0..(height - 1)
            /\ w.id = (row + w.dr) * width + (col + w.dc)
            /\ ~(width > 1 /\ col = width - 1 /\ w.id % width = 0 /\ w.id \div width > row)

\* C10: for PopularityAlgorithm on a non-empty image the palette has
\* min(k, number of distinct colors) distinct colors, no color left out
\* occurs strictly more often than a color in it, and with k = 1 every output
\* pixel equals the most frequent input color.
C10_PopularityPalette ==
    (output.done /\ params.kind = "Popularity" /\ image.pixels # <<>>) =>
        LET present == SeqToSet(image.pixels)
            chosen  == SeqToSet(colors)
        IN  /\ ~output.panic
            /\ Len(colors) = Min(params.k, Cardinality(present))
            /\ Cardinality(chosen) = Len(colors)
            /\ chosen \subseteq present
            /\ \A out \in present \ chosen, in \in chosen :
                  CountOf(image.pixels, out) <= CountOf(image.pixels, in)
            /\ params.k = 1 =>
                  /\ \A c \in present :
                        CountOf(image.pixels, c) <= CountOf(image.pixels, colors[1])
                  /\ output.image.size = image.size
                  /\ \A x \in DOMAIN output.image.pixels :
                        output.image.pixels[x] = colors[1]

\* The part of C10 about the palette alone, which the call satisfies.
C10_PaletteOnly ==
    (output.done /\ params.kind = "Popularity" /\ image.pixels # <<>>) =>
        LET present == SeqToSet(image.pixels)
            chosen  == SeqToSet(colors)
        IN  /\ ~output.panic
            /\ Len(colors) = Min(params.k, Cardinality(present))
            /\ Cardinality(chosen) = Len(colors)
            /\ chosen \subseteq present
            /\ \A out \in present \ chosen, in \in chosen :
                  CountOf(image.pixels, out) <= CountOf(image.pixels, in)

\* C11: for PopularityAlgorithm every output pixel is the palette color with
\* the least squared distance over R, G and B to the input pixel at the same
\* place (alpha not counted), and of several palette colors at that least
\* distance the first in palette order.
C11_NearestPaletteColor ==
    (output.done /\ params.kind = "Popularity" /\ image.pixels # <<>>) =>
        /\ ~output.panic
        /\ output.image.size = image.size
        /\ Len(output.image.pixels) = Len(image.pixels)
        /\ \A x \in DOMAIN image.pixels :
              \E c \in DOMAIN colors :
                  /\ output.image.pixels[x] = colors[c]
                  /\ \A y \in DOMAIN colors :
                        /\ colors_distance(image.pixels[x], colors[c])
                              <= colors_distance(image.pixels[x], colors[y])
                        /\ colors_distance(image.pixels[x], colors[c])
                              = colors_distance(image.pixels[x], colors[y]) => c <= y

\* C12: PopularityAlgorithm on a source image of zero pixels fails with an
\* empty-palette condition and returns no image.
C12_EmptyImageFails ==
    (output.done /\ params.kind = "Popularity" /\ image.pixels = <<>>) =>
        /\ output.panic
        /\ output.image = NoColorImage

\* C13: in both ordered-dithering variants, for every channel value in
\* [0,255], every k in [2,255] and every cell (i, j) of the threshold matrix
\* of find_n(k), the column chosen (col, or col + 1 when the remainder of
\* value * (k - 1) modulo 255 exceeds matrix[i][j] * 255 / n^2) is at most
\* k - 1: the output is levels[min(chosen column, k - 1)] and the level table
\* is never indexed out of range.
C13_ColumnWithinLevels ==
    call.quantizer # "none" =>
        LET scaled == call.value * (k - 1)
            chosen == IF scaled % 255 > (matrix[call.i][call.j] * 255) \div (n * n)
                      THEN scaled \div 255 + 1
                      ELSE scaled \div 255
        IN  /\ Len(levels) = k
            /\ call.i \in 0..(n - 1)
            /\ call.j \in 0..(n - 1)
            /\ call.final_col = chosen
            /\ chosen <= k - 1
            /\ ~call.panic
            /\ call.out = levels[Min(chosen, k - 1) + 1]

\* The column is raised to the last one: 254 * 254 = 253 * 255 + 1, and the
\* remainder 1 exceeds the threshold 0 of cell (0, 0) of the 2 by 2 matrix.
C13_Witness ==
    /\ call.quantizer = "OrderedDitheringRelative"
    /\ k = 255
    /\ call.value = 254
    /\ call.col = 253
    /\ call.final_col = 254
    /\ call.out = 255

\* Whether v is an entry of the level table lv.
IsLevel(v, lv) == \E x \in DOMAIN lv : lv[x] = v

\* C14: for each of the four dithering quantizers, every image and every
\* k_r, k_g, k_b, each channel value of each output pixel is an entry of the
\* level table of its channel; for ErrorDiffusion the error distribution of
\* step i writes only to pixels after i, so a pixel quantized at step i keeps
\* its levels through step i and every later step.
C14_OutputInLevelTables ==
    algorithm \in DitheringAlgorithms =>
        /\ tables.levels = <<generate_color_levels(params.k_r),
                             generate_color_levels(params.k_g),
                             generate_color_levels(params.k_b)>>
        /\ output.done =>
              /\ ~output.panic
              /\ output.image.size = image.size
              /\ Len(output.image.pixels) = Len(image.pixels)
              /\ \A x \in DOMAIN output.image.pixels, ch \in 1..3 :
                    IsLevel(output.image.pixels[x][ch], tables.levels[ch])
        /\ algorithm = "ErrorDiffusionDithering" =>
              /\ \A w \in writes : w.from = loop_i - 1 /\ w.id > w.from
              /\ \A x \in 1..loop_i, ch \in 1..3 :
                    IsLevel(output_pixels[x][ch], tables.levels[ch])

\* An ErrorDiffusion call on a 2 by 2 image has returned, having changed it.
C14_Witness ==
    /\ algorithm = "ErrorDiffusionDithering"
    /\ output.done
    /\ image.size = <<2, 2>>
    /\ params = Dithering(3, 2, 4)
    /\ loop_i = 4
    /\ output.image.pixels # image.pixels

\* The output pixel of AverageDithering and OrderedDitheringRelative as a
\* function of the input pixel, its row and its column.
PixelAt(alg, pixel, row, col) ==
    IF alg = "AverageDithering"
    THEN from_rgb(find_closest_level(pixel[1], tables.levels[1]),
                  find_closest_level(pixel[2], tables.levels[2]),
                  find_closest_level(pixel[3], tables.levels[3]))
    ELSE from_rgb(get_color_Relative(pixel[1], tables.levels[1], tables.matrix[1],
                                     row, col, tables.n[1]).out,
                  get_color_Relative(pixel[2], tables.levels[2], tables.matrix[2],
                                     row, col, tables.n[2]).out,
                  get_color_Relative(pixel[3], tables.levels[3], tables.matrix[3],
                                     row, col, tables.n[3]).out)

\* C15: for AverageDithering and OrderedDitheringRelative the output does not
\* depend on the order in which the workers process the chunks: the index a
\* closure reconstructs for a pixel of its chunk is the raster index of that
\* pixel, and the output pixel at raster index p is a function of the input
\* pixel at p, of p's row and of p's column only, whatever the order the
\* chunks were finished in.
C15_ChunkOrderIndependent ==
    algorithm \in {"AverageDithering", "OrderedDitheringRelative"} =>
        /\ \A c \in DOMAIN chunk_results :
              (chunk_results[c].done /\ algorithm = "OrderedDitheringRelative") =>
                  LET chunk == par_chunk(image.pixels, c - 1, CHUNK_SIZE)
                      ids   == chunk_results[c].ids
                  IN  /\ Len(ids) = Len(chunk)
                      /\ \A o \in DOMAIN ids :
                            /\ ids[o] = (c - 1) * CHUNK_SIZE + (o - 1)
                            /\ image.pixels[ids[o] + 1] = chunk[o]
        /\ output.done =>
              /\ ~output.panic
              /\ output.image.size = image.size
              /\ Len(output.image.pixels) = Len(image.pixels)
              /\ \A p \in DOMAIN image.pixels :
                    output.image.pixels[p] =
                        PixelAt(algorithm, image.pixels[p],
                                (p - 1) \div image.size[1], (p - 1) % image.size[1])

\* An OrderedDitheringRelative call has returned whose three chunks were
\* finished last chunk first.
C15_Witness ==
    /\ algorithm = "OrderedDitheringRelative"
    /\ output.done
    /\ ~output.panic
    /\ Len(finished) = 3
    /\ finished[1] = 2
    /\ finished[2] = 0

====
